---- MODULE Spec2Model ----
(***************************************************************************)
(* A model of django_to_gorm.convert(): the single-pass scan that turns    *)
(* the lines of a Django models.py into GORM struct declarations.          *)
(*                                                                         *)
(* Text is modelled as Python sees it: a str is a sequence of one-         *)
(* character strings, and every str method the scan uses (strip, split,    *)
(* replace, startswith, lower, capitalize, format of an int, ...) is an    *)
(* operator computing what the method computes.                            *)
(***************************************************************************)
EXTENDS Integers, Sequences, FiniteSets, TLC

(***************************************************************************)
(* Python str methods                                                      *)
(***************************************************************************)

\* the character ` (U+0060), which no string of this language can hold
Backtick == "U+0060"

\* str.isspace() of one character, as used by strip()
IsSpace(c) == c \in {" ", "\t", "\n"}

\* s[i:] (1-based i)
Drop(s, n) == SubSeq(s, n + 1, Len(s))

\* s[:n]
Take(s, n) == SubSeq(s, 1, n)

\* s.startswith(p)
StartsWith(s, p) == Len(p) <= Len(s) /\ Take(s, Len(p)) = p

\* s.endswith(p)
EndsWith(s, p) == Len(p) <= Len(s) /\ Drop(s, Len(s) - Len(p)) = p

\* s.find(p) + 1: the 1-based position of the first occurrence, 0 when absent
Find(s, p) ==
    LET hits == {i \in 1..(Len(s) - Len(p) + 1) : SubSeq(s, i, i + Len(p) - 1) = p}
    IN  IF hits = {} THEN 0 ELSE CHOOSE i \in hits : \A j \in hits : i <= j

\* p in s
Contains(s, p) == Find(s, p) # 0

\* s.lstrip(): leading characters of the set cs removed
RECURSIVE LStripChars(_, _)
LStripChars(s, cs) ==
    IF s # <<>> /\ Head(s) \in cs THEN LStripChars(Tail(s), cs) ELSE s

\* s.rstrip()
RECURSIVE RStripChars(_, _)
RStripChars(s, cs) ==
    IF s # <<>> /\ s[Len(s)] \in cs THEN RStripChars(Take(s, Len(s) - 1), cs) ELSE s

\* s.strip(chars)
StripChars(s, cs) == RStripChars(LStripChars(s, cs), cs)

\* s.strip()
Strip(s) == StripChars(s, {" ", "\t", "\n"})

\* s.split(sep): every occurrence of the non-empty separator cuts, empty
\* pieces are kept
RECURSIVE Split(_, _)
Split(s, sep) ==
    LET i == Find(s, sep)
    IN  IF i = 0 THEN <<s>>
        ELSE <<Take(s, i - 1)>> \o Split(Drop(s, i - 1 + Len(sep)), sep)

\* s.replace(old, new) for a non-empty old: non-overlapping occurrences,
\* left to right
RECURSIVE Replace(_, _, _)
Replace(s, old, new) ==
    LET i == Find(s, old)
    IN  IF i = 0 THEN s
        ELSE Take(s, i - 1) \o new \o Replace(Drop(s, i - 1 + Len(old)), old, new)

UpperLetters ==
    <<"A","B","C","D","E","F","G","H","I","J","K","L","M",
      "N","O","P","Q","R","S","T","U","V","W","X","Y","Z">>

LowerLetters ==
    <<"a","b","c","d","e","f","g","h","i","j","k","l","m",
      "n","o","p","q","r","s","t","u","v","w","x","y","z">>

LowerChar(c) ==
    IF \E i \in 1..26 : UpperLetters[i] = c
    THEN LowerLetters[CHOOSE i \in 1..26 : UpperLetters[i] = c]
    ELSE c

UpperChar(c) ==
    IF \E i \in 1..26 : LowerLetters[i] = c
    THEN UpperLetters[CHOOSE i \in 1..26 : LowerLetters[i] = c]
    ELSE c

\* s.lower()
Lower(s) == [i \in 1..Len(s) |-> LowerChar(s[i])]

\* s.upper()
Upper(s) == [i \in 1..Len(s) |-> UpperChar(s[i])]

\* s.capitalize(): first character upper-cased, the rest lower-cased
Capitalize(s) ==
    [i \in 1..Len(s) |-> IF i = 1 THEN UpperChar(s[i]) ELSE LowerChar(s[i])]

Digits == <<"0","1","2","3","4","5","6","7","8","9">>

\* '{0}'.format(n) for an int n >= 0
RECURSIVE IntStr(_)
IntStr(n) ==
    IF n < 10 THEN <<Digits[n + 1]>>
    ELSE IntStr(n \div 10) \o <<Digits[(n % 10) + 1]>>

\* sep.join(ls)
RECURSIVE Join(_, _)
Join(ls, sep) ==
    IF ls = <<>> THEN <<>>
    ELSE IF Len(ls) = 1 THEN ls[1]
    ELSE ls[1] \o sep \o Join(Tail(ls), sep)


(***************************************************************************)
(* Module constants of django_to_gorm.py                                   *)
(***************************************************************************)

\* TYPE_MAP.get(field_type, None); None is <<>>, which `if gotype:` treats
\* like any other falsy value
TYPE_MAP(field_type) ==
    CASE field_type = <<"B","o","o","l","e","a","n","F","i","e","l","d">> -> <<"b","o","o","l">>
      [] field_type = <<"I","n","t","e","g","e","r","F","i","e","l","d">> -> <<"i","n","t">>
      [] field_type = <<"B","i","g","I","n","t","e","g","e","r","F","i","e","l","d">> -> <<"i","n","t","6","4">>
      [] field_type = <<"C","h","a","r","F","i","e","l","d">> -> <<"s","t","r","i","n","g">>
      [] field_type = <<"T","e","x","t","F","i","e","l","d">> -> <<"s","t","r","i","n","g">>
      [] field_type = <<"D","a","t","e","T","i","m","e","F","i","e","l","d">> -> <<"t","i","m","e",".","T","i","m","e">>
      [] field_type = <<"N","u","l","l","B","o","o","l","e","a","n","F","i","e","l","d">> -> <<"s","q","l",".","N","u","l","l","B","o","o","l">>
      [] field_type = <<"B","i","n","a","r","y","F","i","e","l","d">> -> <<"b","y","t","e","[","]">>
      [] OTHER -> <<>>

\* IMPORTS.split('\n')
IMPORTS ==
    << <<"p","a","c","k","a","g","e"," ","m","a","i","n">>,
       <<>>,
       <<"i","m","p","o","r","t">>,
       <<"(">>,
       <<"\t","\"","g","o","r","m",".","i","o","/","g","o","r","m","\"">>,
       <<"\t","/","/"," ","E","n","a","b","l","e"," ","o","n","e"," ","f","r","o","m"," ","b","e","l","o","w"," ","a","s"," ","n","e","e","d","e","d",","," ","p","o","s","t","g","r","e","s"," ","i","n","c","l","u","d","e","d"," ","a","s"," ","d","e","f","a","u","l","t">>,
       <<"\t","\"","g","o","r","m",".","i","o","/","d","r","i","v","e","r","/","p","o","s","t","g","r","e","s","\"">>,
       <<"\t","/","/"," ","\"","g","o","r","m",".","i","o","/","d","r","i","v","e","r","/","m","y","s","q","l","\"">>,
       <<"\t","/","/"," ","\"","g","o","r","m",".","i","o","/","d","r","i","v","e","r","/","s","q","l","i","t","e","\"">>,
       <<"\t","\"","t","i","m","e","\"">>,
       <<"\t","\"","f","m","t","\"">>,
       <<"\t","\"","d","a","t","a","b","a","s","e","/","s","q","l","\"">>,
       <<")">>,
       <<>>,
       <<>> >>

\* TABLE_HELPER.split('\n')
TABLE_HELPER ==
    << <<>>,
       <<"t","y","p","e"," ","T","a","b","l","e","r"," ","i","n","t","e","r","f","a","c","e"," ","{">>,
       <<"\t","T","a","b","l","e","N","a","m","e","(",")"," ","s","t","r","i","n","g">>,
       <<"}">>,
       <<>>,
       <<>> >>

\* USER_MODEL.split('\n')
USER_MODEL ==
    << <<>>,
       <<"t","y","p","e"," ","U","s","e","r"," ","s","t","r","u","c","t"," ","{">>,
       <<"\t","I","D","\t","\t"," "," "," "," "," "," "," "," ","i","n","t","6","4","\t","\t",Backtick,"g","o","r","m",":","\"","p","r","i","m","a","r","y","K","e","y","\"",Backtick>>,
       <<"\t","E","m","a","i","l","\t"," "," "," "," "," "," "," "," ","s","t","r","i","n","g","\t"," "," "," "," ",Backtick,"g","o","r","m",":","\"","c","o","l","u","m","n",":","e","m","a","i","l","\"",Backtick>>,
       <<"\t","F","i","r","s","t","_","n","a","m","e","\t"," "," "," "," ","s","t","r","i","n","g","\t"," "," "," "," ",Backtick,"g","o","r","m",":","\"","c","o","l","u","m","n",":","f","i","r","s","t","_","n","a","m","e","\"",Backtick>>,
       <<"\t","L","a","s","t","_","n","a","m","e","\t"," "," "," "," ","s","t","r","i","n","g","\t"," "," "," "," ",Backtick,"g","o","r","m",":","\"","c","o","l","u","m","n",":","l","a","s","t","_","n","a","m","e","\"",Backtick>>,
       <<"\t","I","s","_","s","u","p","e","r","u","s","e","r","\t","b","o","o","l"," "," "," "," "," "," "," "," ",Backtick,"g","o","r","m",":","\"","c","o","l","u","m","n",":","i","s","_","s","u","p","e","r","u","s","e","r","\"",Backtick>>,
       <<"\t","I","s","_","s","t","a","f","f","\t"," "," "," "," ","b","o","o","l"," "," "," "," "," "," "," "," ",Backtick,"g","o","r","m",":","\"","c","o","l","u","m","n",":","i","s","_","s","t","a","f","f","\"",Backtick>>,
       <<"\t","D","a","t","e","_","j","o","i","n","e","d"," "," "," "," "," ","t","i","m","e",".","T","i","m","e"," "," "," ",Backtick,"g","o","r","m",":","\"","c","o","l","u","m","n",":","d","a","t","e","_","j","o","i","n","e","d","\"",Backtick>>,
       <<"}">>,
       <<>>,
       <<"f","u","n","c","(","U","s","e","r",")"," ","T","a","b","l","e","N","a","m","e","(",")"," ","s","t","r","i","n","g"," ","{">>,
       <<"\t","r","e","t","u","r","n"," ","\"","a","u","t","h","_","u","s","e","r","\"">>,
       <<"}">>,
       <<>>,
       <<>> >>

\* GROUP_MODEL.split('\n')
GROUP_MODEL ==
    << <<>>,
       <<"t","y","p","e"," ","G","r","o","u","p"," ","s","t","r","u","c","t"," ","{">>,
       <<"\t","I","D","\t","\t"," "," "," "," "," "," "," "," ","i","n","t","6","4","\t","\t",Backtick,"g","o","r","m",":","\"","p","r","i","m","a","r","y","K","e","y","\"",Backtick>>,
       <<"\t","N","a","m","e","\t"," "," "," "," "," "," "," "," ","s","t","r","i","n","g","\t"," "," "," "," ",Backtick,"g","o","r","m",":","\"","c","o","l","u","m","n",":","n","a","m","e","\"",Backtick>>,
       <<"}">>,
       <<>>,
       <<"f","u","n","c","(","G","r","o","u","p",")"," ","T","a","b","l","e","N","a","m","e","(",")"," ","s","t","r","i","n","g"," ","{">>,
       <<"\t","r","e","t","u","r","n"," ","\"","a","u","t","h","_","g","r","o","u","p","\"">>,
       <<"}">>,
       <<>>,
       <<>> >>

\* HELPER_REF, the text written after the joined lines
HELPER_REF ==
    <<"\n">>
    \o <<"/","/","\n">>
    \o <<"/","/"," ","E","X","A","M","P","L","E"," ","/"," ","h","e","l","p"," ","/"," ","r","e","f","e","r","e","n","c","e",","," ","u","p","d","a","t","e"," ","t","h","i","s"," ","w","i","t","h"," ","y","o","u","r"," ","D","B"," ","t","y","p","e"," ","/"," ","c","r","e","d","e","n","t","i","a","l","s",".","\n">>
    \o <<"/","/","\n">>
    \o <<"f","u","n","c"," ","m","a","i","n","(",")","{","\n">>
    \o <<" "," "," "," ","d","s","n"," ",":","="," ","\"","h","o","s","t","=","l","o","c","a","l","h","o","s","t"," ","u","s","e","r","=","U","S","E","R"," ","p","a","s","s","w","o","r","d","=","P","W","D"," ","d","b","n","a","m","e","=","D","B","N","A","M","E"," ","p","o","r","t","=","5","4","3","2"," ","T","i","m","e","Z","o","n","e","=","E","u","r","o","p","e","/","L","o","n","d","o","n","\"","\n">>
    \o <<" "," "," "," ","d","b",","," ","e","r","r"," ",":","="," ","g","o","r","m",".","O","p","e","n","(","p","o","s","t","g","r","e","s",".","O","p","e","n","(","d","s","n",")",","," ","&","g","o","r","m",".","C","o","n","f","i","g","{","}",")","\n">>
    \o <<" "," "," "," ","i","f"," ","e","r","r"," ","!","="," ","n","i","l"," ","{","\n">>
    \o <<" "," "," "," "," "," "," "," ","f","m","t",".","P","r","i","n","t","f","(","\"","E","r","r","o","r"," ","c","o","n","n","e","c","t","i","n","g",":"," ","%","s","\\","n","\"",","," ","e","r","r",")","\n">>
    \o <<" "," "," "," ","}","\n">>
    \o <<" "," "," "," ","\n">>
    \o <<" "," "," "," ","v","a","r"," ","u","s","e","r"," ","U","s","e","r","\n">>
    \o <<" "," "," "," ","d","b",".","F","i","r","s","t","(","&","u","s","e","r",")","\n">>
    \o <<" "," "," "," ","f","m","t",".","P","r","i","n","t","f","(","\"","F","i","r","s","t"," ","e","m","a","i","l"," ","i","n"," ","U","s","e","r"," ","t","a","b","l","e",":"," ","%","s","\\","n","\"",","," ","u","s","e","r",".","E","m","a","i","l",")","\n">>
    \o <<"}">>

(***************************************************************************)
(* convert(): the scan                                                     *)
(***************************************************************************)

VARIABLES
    infile_exists,         \* os.path.exists(infile), for an infile given as a path
    in_lines,              \* the lines of the input
    outfile,               \* the file at the output path: [exists, content]
    errfile,               \* the file at the output path + '.errors'
    include_helpers,
    auto_add_user_model,
    auto_add_group_model,
    pc,                    \* "start", "scan", "done", or "exit" after sys.exit()
    pos,                   \* how many of in_lines `for l in in_lines` has taken
    out_lines,
    current_model,
    last_model_closed,
    got_custom_tables,
    in_model_def,
    model_name,
    default_table_name,
    table_name,
    custom_table_name,
    found_user_table,
    found_group_table,
    prev_line,
    lines,
    errors,
    caller                 \* what the caller of convert() keeps: the files as they
                           \* were before its first call, the outcomes of its calls

vars ==
    << infile_exists, in_lines, outfile, errfile, include_helpers,
       auto_add_user_model, auto_add_group_model, pc, pos, out_lines,
       current_model, last_model_closed, got_custom_tables, in_model_def, model_name,
       default_table_name, table_name, custom_table_name, found_user_table,
       found_group_table, prev_line, lines, errors, caller >>

\* the locals of convert() that the loop reads and writes
scan_state ==
    [ out_lines |-> out_lines, current_model |-> current_model,
      last_model_closed |-> last_model_closed,
      got_custom_tables |-> got_custom_tables, in_model_def |-> in_model_def,
      model_name |-> model_name, default_table_name |-> default_table_name,
      table_name |-> table_name, custom_table_name |-> custom_table_name,
      found_user_table |-> found_user_table,
      found_group_table |-> found_group_table, prev_line |-> prev_line,
      lines |-> lines, errors |-> errors, exited |-> FALSE ]

\* the buffer cm after __close_model_def's appends (it is extended in place)
closed_buffer(cm, custom, mname, tname) ==
    cm \o << <<"}">>, <<>> >>
       \o IF custom
          THEN << <<"f","u","n","c"," ","(">> \o mname \o <<")"," ","T","a","b","l","e","N","a","m","e","(",")"," ","s","t","r","i","n","g"," ","{">>,
                  <<"\t","r","e","t","u","r","n"," ","\"">> \o tname \o <<"\"">>,
                  <<"}">>,
                  <<>> >>
          ELSE <<>>

\* __close_model_def writing the accessor whether or not a custom table name
\* was seen
close_model_def_accessor_always(cm, custom, mname, tname, dname) ==
    closed_buffer(cm, TRUE, mname, tname)

\* the lines __close_model_def extends out_lines with
close_model_def(cm, custom, mname, tname, dname) ==
    LET buf == closed_buffer(cm, custom, mname, tname)
    IN  IF custom
        THEN [i \in 1..Len(buf) |-> Replace(buf[i], dname, tname)]
        ELSE buf

\* __close_model_def(current_model) on the state s, then current_model = []
close_current(s) ==
    [s EXCEPT !.out_lines = @ \o close_model_def(s.current_model, s.custom_table_name,
                                                 s.model_name, s.table_name,
                                                 s.default_table_name),
              !.last_model_closed = TRUE,
              !.current_model = <<>>]

\* l.startswith('class') and l.endswith('Model):')
is_model_start(l) == StartsWith(l, <<"c","l","a","s","s">>) /\ EndsWith(l, <<"M","o","d","e","l",")",":">>)

\* 'app_{0}s'.format(model_name.lower())
default_name(mname) == <<"a","p","p","_">> \o Lower(mname) \o <<"s">>

\* the declaration-start branch with the custom table name of the model
\* before left in place
open_model_keeps_table_name(s, l) ==
    LET s1 == IF s.in_model_def THEN close_current(s) ELSE s
        words == Split(l, <<" ">>)
    IN  IF Len(words) < 2 THEN [s1 EXCEPT !.exited = TRUE]
        ELSE LET mname == Split(words[2], <<"(">>)[1]
             IN  [s1 EXCEPT !.in_model_def = TRUE,
                            !.last_model_closed = FALSE,
                            !.model_name = mname,
                            !.found_user_table = @ \/ mname = <<"U","s","e","r">>,
                            !.found_group_table = @ \/ mname = <<"G","r","o","u","p">>,
                            !.table_name = IF s.custom_table_name THEN @
                                           ELSE default_name(mname),
                            !.default_table_name = default_name(mname),
                            !.current_model = @ \o << <<"t","y","p","e"," ">> \o mname \o <<" ","s","t","r","u","c","t"," ","{">> >>]

\* the declaration-start branch without the close of the model that is open
open_model_without_close(s, l) ==
    LET s1 == s
        words == Split(l, <<" ">>)
    IN  IF Len(words) < 2 THEN [s1 EXCEPT !.exited = TRUE]
        ELSE LET mname == Split(words[2], <<"(">>)[1]
             IN  [s1 EXCEPT !.in_model_def = TRUE,
                            !.last_model_closed = FALSE,
                            !.model_name = mname,
                            !.found_user_table = @ \/ mname = <<"U","s","e","r">>,
                            !.found_group_table = @ \/ mname = <<"G","r","o","u","p">>,
                            !.table_name = default_name(mname),
                            !.default_table_name = default_name(mname),
                            !.custom_table_name = FALSE,
                            !.current_model = @ \o << <<"t","y","p","e"," ">> \o mname \o <<" ","s","t","r","u","c","t"," ","{">> >>]

\* the declaration-start branch; l.split(' ')[1] raises IndexError, which
\* nothing catches, when the line holds no space
open_model(s, l) ==
    LET s1 == IF s.in_model_def THEN close_current(s) ELSE s
        words == Split(l, <<" ">>)
    IN  IF Len(words) < 2 THEN [s1 EXCEPT !.exited = TRUE]
        ELSE LET mname == Split(words[2], <<"(">>)[1]
             IN  [s1 EXCEPT !.in_model_def = TRUE,
                            !.last_model_closed = FALSE,
                            !.model_name = mname,
                            !.found_user_table = @ \/ mname = <<"U","s","e","r">>,
                            !.found_group_table = @ \/ mname = <<"G","r","o","u","p">>,
                            !.table_name = default_name(mname),
                            !.default_table_name = default_name(mname),
                            !.custom_table_name = FALSE,
                            !.current_model = @ \o << <<"t","y","p","e"," ">> \o mname \o <<" ","s","t","r","u","c","t"," ","{">> >>]

\* the custom db table test without its look at the line before
is_db_table_anywhere(l, prev) ==
    /\ Contains(l, <<"d","b","_","t","a","b","l","e">>)
    /\ Contains(l, <<"=">>)
    /\ ~StartsWith(l, <<"#">>)

\* the test that routes a line to the custom db table branch
is_db_table(l, prev) ==
    /\ Contains(l, <<"d","b","_","t","a","b","l","e">>)
    /\ Contains(l, <<"=">>)
    /\ ~StartsWith(l, <<"#">>)
    /\ Contains(prev, <<"c","l","a","s","s"," ","M","e","t","a",":">>)

\* l.split('=')[1].strip() with u", u', " and ' removed
custom_name(l) ==
    Replace(Replace(Replace(Replace(Strip(Split(l, <<"=">>)[2]),
        <<"u","\"">>, <<>>), <<"u","'">>, <<>>), <<"\"">>, <<>>), <<"'">>, <<>>)

\* the line of a primary key field
pk_line(field_name) ==
    <<"\t">> \o Upper(field_name) \o <<"\t","\t","i","n","t","6","4","\t","\t",Backtick,"g","o","r","m",":","\"","p","r","i","m","a","r","y","K","e","y","\"",Backtick>>

\* the line of a TYPE_MAP field with the column name put in lower case
scalar_line_lower_column(field_name, gotype) ==
    <<"\t">> \o Capitalize(field_name) \o <<"\t","\t">> \o gotype
         \o <<"\t",Backtick,"g","o","r","m",":","\"","c","o","l","u","m","n",":">> \o Lower(field_name) \o <<"\"",Backtick>>

\* the line of a field whose type is in TYPE_MAP
scalar_line(field_name, gotype) ==
    <<"\t">> \o Capitalize(field_name) \o <<"\t","\t">> \o gotype
         \o <<"\t",Backtick,"g","o","r","m",":","\"","c","o","l","u","m","n",":">> \o field_name \o <<"\"",Backtick>>

\* the related model's name, from the text after the first '.' of the call;
\* split('(')[1] raises when it holds no '(' and the bare except answers
fkeymodel_of(call) ==
    LET args == Split(call, <<"(">>)
    IN  IF Len(args) < 2 THEN <<"#","#","#","#","#","#","#","#">>
        ELSE StripChars(Strip(Split(Strip(args[2]), <<",">>)[1]), {")"})

\* the two lines of a ForeignKey field
foreign_key_lines(field_name, fkeymodel) ==
    << <<"\t">> \o Capitalize(field_name) \o <<"I","D","\t","\t","i","n","t","6","4","\t">>
            \o <<Backtick,"g","o","r","m",":","\"","f","o","r","e","i","g","n","K","e","y",":">> \o field_name \o <<"_","i","d",";","a","s","s","o","c","i","a","t","i","o","n","_","f","o","r","e","i","g","n","k","e","y",":","i","d","\"",Backtick>>,
       <<"\t">> \o Capitalize(field_name) \o <<"\t","\t">> \o fkeymodel >>

\* the two lines of a ManyToManyField field
many_to_many_lines(field_name, fkeymodel, tname) ==
    << <<"\t","\\"," ","!","!"," ","N","O","T","E",":"," ","m","2","m"," ","k","e","y"," ","r","e","l","a","t","i","o","n","s","h","i","p","/","n","a","m","e"," ","m","a","y"," ","n","o","t"," ","w","o","r","k">>,
       <<"\t">> \o Capitalize(field_name) \o <<"\t","\t","[","]">> \o fkeymodel \o <<"\t">>
            \o <<Backtick,"g","o","r","m",":","\"","m","a","n","y","2","m","a","n","y",":">> \o tname \o <<"_">> \o field_name
            \o <<";","j","o","i","n","F","o","r","e","i","g","n","K","e","y",":">> \o tname \o <<"_","i","d","\"",Backtick>> >>

\* the two lines of a OneToOneField field
one_to_one_lines(field_name, fkeymodel) ==
    << <<"\t">> \o Capitalize(field_name) \o <<"I","D","\t","\t","i","n","t","6","4","\t">>
            \o <<Backtick,"g","o","r","m",":","\"","f","o","r","e","i","g","n","K","e","y",":">> \o field_name \o <<"_","i","d","\"",Backtick>>,
       <<"\t">> \o Capitalize(field_name) \o <<"\t","\t">> \o fkeymodel >>

\* the test that lets an unknown field type pass without a word
is_skipped(l, prev) ==
    Contains(l, <<"g","e","t","L","o","g","g","e","r">>) \/ EndsWith(prev, <<",">>) \/ EndsWith(prev, <<"\\">>)

\* the entry of errors numbered from 0
unknown_error_from_zero(n, field_type) ==
    IntStr(n - 1) \o <<":"," ","U","n","k","n","o","w","n","/","u","n","h","a","n","d","l","e","d"," ","l","i","n","e",":"," ">> \o field_type

\* the entry of errors for an unknown field type
unknown_error(n, field_type) ==
    IntStr(n) \o <<":"," ","U","n","k","n","o","w","n","/","u","n","h","a","n","d","l","e","d"," ","l","i","n","e",":"," ">> \o field_type

\* the comment left in the model for an unknown field type
unknown_comment(n, l) ==
    <<"\t","/","/"," ","!","!"," ","u","n","k","n","o","w","n"," ","t","y","p","e"," ","i","n"," ","l","i","n","e"," ">> \o IntStr(n) \o <<","," ","o","r","i","g","i","n","a","l",":"," ">> \o l

\* the except branch of the field parse: TreeForeignKey is noted, anything
\* else ends the run
parse_failure(s, l) ==
    IF Contains(l, <<"T","r","e","e","F","o","r","e","i","g","n","K","e","y">>)
    THEN [s EXCEPT !.errors = Append(@, IntStr(s.lines) \o <<":"," ">> \o l),
                   !.current_model = Append(@,
                       <<"\t","/","/"," ","!","!"," ","U","n","h","a","n","d","l","e","d"," ","i","t","e","m"," ","i","n"," ","l","i","n","e"," ">> \o IntStr(s.lines)
                           \o <<","," ","o","r","i","g","i","n","a","l",":"," ">> \o l)]
    ELSE [s EXCEPT !.exited = TRUE]

\* the branch of a field whose type is not in TYPE_MAP
other_field(s, l, field_name, field_type, call) ==
    LET fkeymodel == fkeymodel_of(call)
    IN  IF field_type = <<"F","o","r","e","i","g","n","K","e","y">>
        THEN [s EXCEPT !.current_model = @ \o foreign_key_lines(field_name, fkeymodel)]
        ELSE IF field_type = <<"M","a","n","y","T","o","M","a","n","y","F","i","e","l","d">>
        THEN [s EXCEPT !.current_model =
                           @ \o many_to_many_lines(field_name, fkeymodel, s.table_name)]
        ELSE IF field_type = <<"O","n","e","T","o","O","n","e","F","i","e","l","d">>
        THEN [s EXCEPT !.current_model = @ \o one_to_one_lines(field_name, fkeymodel)]
        ELSE IF is_skipped(l, s.prev_line)
        THEN s
        ELSE [s EXCEPT !.errors = Append(@, unknown_error(s.lines, field_type)),
                       !.current_model = Append(@, unknown_comment(s.lines, l))]

\* the branch of a line holding '=' and 'models.'
field_line(s, l) ==
    LET field_parts == Split(l, <<"=">>)
        field_name == Strip(field_parts[1])
        dotted == Split(Strip(field_parts[2]), <<".">>)
    IN  IF Len(dotted) < 2 THEN parse_failure(s, l)
        ELSE LET field_type == Strip(Split(dotted[2], <<"(">>)[1])
             IN  IF field_name \in {<<"i","d">>, <<"p","k">>, <<"I","D">>, <<"P","K">>} /\ Contains(l, <<"p","r","i","m","a","r","y","_","k","e","y">>)
                 THEN [s EXCEPT !.current_model = Append(@, pk_line(field_name))]
                 ELSE IF TYPE_MAP(field_type) # <<>>
                 THEN [s EXCEPT !.current_model =
                                    Append(@, scalar_line(field_name, TYPE_MAP(field_type)))]
                 ELSE other_field(s, l, field_name, field_type, dotted[2])

\* a line inside a model definition that does not start a model
model_line(s, l) ==
    IF is_db_table(l, s.prev_line)
    THEN [s EXCEPT !.custom_table_name = TRUE,
                   !.got_custom_tables = TRUE,
                   !.table_name = custom_name(l)]
    ELSE IF StartsWith(l, <<"\"","\"","\"">>)
    THEN [s EXCEPT !.current_model = Append(@, <<"\t","/","/"," ">> \o Replace(l, <<"\"","\"","\"">>, <<>>))]
    ELSE IF StartsWith(l, <<"#">>)
    THEN [s EXCEPT !.current_model = Append(@, <<"\t","/","/"," ">> \o Replace(l, <<"#">>, <<>>))]
    ELSE IF Contains(l, <<"=">>) /\ Contains(l, <<"m","o","d","e","l","s",".">>)
    THEN field_line(s, l)
    ELSE s

\* the test of a closing def made on the trimmed line: an indented def
\* closes the model too
def_closes_when_indented(s, raw) == StartsWith(Strip(raw), <<"d","e","f"," ">>) /\ s.in_model_def

\* an unindented 'def ' closes the model being defined
def_closes(s, raw) == StartsWith(raw, <<"d","e","f"," ">>) /\ s.in_model_def

\* one pass of `for l in in_lines`
loop_body(s, raw) ==
    LET s1 == IF def_closes(s, raw)
              THEN [close_current(s) EXCEPT !.in_model_def = FALSE]
              ELSE s
        l == Strip(raw)
        s2 == IF is_model_start(l) THEN open_model(s1, l)
              ELSE IF s1.in_model_def THEN model_line(s1, l)
              ELSE s1
    IN  IF s2.exited THEN s2
        ELSE [s2 EXCEPT !.prev_line = l, !.lines = @ + 1]

\* out_prefix with the two auto_add options taken one for the other
out_prefix_options_swapped(helpers, add_user, add_group, custom_seen, user_seen, group_seen) ==
    (IF helpers THEN IMPORTS ELSE <<>>)
    \o (IF custom_seen THEN TABLE_HELPER ELSE <<>>)
    \o (IF ~user_seen /\ add_group THEN USER_MODEL ELSE <<>>)
    \o (IF ~group_seen /\ add_user THEN GROUP_MODEL ELSE <<>>)

\* out_prefix
out_prefix(helpers, add_user, add_group, custom_seen, user_seen, group_seen) ==
    (IF helpers THEN IMPORTS ELSE <<>>)
    \o (IF custom_seen THEN TABLE_HELPER ELSE <<>>)
    \o (IF ~user_seen /\ add_user THEN USER_MODEL ELSE <<>>)
    \o (IF ~group_seen /\ add_group THEN GROUP_MODEL ELSE <<>>)

\* what is written to outfile
out_text(ls, helpers) ==
    Join(ls, <<"\n">>) \o (IF helpers THEN HELPER_REF ELSE <<>>)

\* a path where no file is
NoFile == [exists |-> FALSE, content |-> <<>>]

\* a file left at a path by someone else
OldFile == [exists |-> TRUE, content |-> <<"o","l","d">>]

\* the locals as convert() sets them before the loop
InitLocals ==
    /\ pc = "start"
    /\ pos = 0
    /\ out_lines = <<>>
    /\ current_model = <<>>
    /\ last_model_closed = FALSE
    /\ got_custom_tables = FALSE
    /\ in_model_def = FALSE
    /\ model_name = <<>>
    /\ default_table_name = <<>>
    /\ table_name = <<>>
    /\ custom_table_name = FALSE
    /\ found_user_table = FALSE
    /\ found_group_table = FALSE
    /\ prev_line = <<>>
    /\ lines = 1
    /\ errors = <<>>

\* a call of convert(): the input is one of `inputs` or a path to no file,
\* the three options are one of `options`
InitWith(inputs, options) ==
    /\ infile_exists \in BOOLEAN
    /\ in_lines \in (IF infile_exists THEN inputs ELSE {<<>>})
    /\ outfile \in {NoFile, OldFile}
    /\ errfile \in {NoFile, OldFile}
    /\ \E o \in options :
          /\ include_helpers = o[1]
          /\ auto_add_user_model = o[2]
          /\ auto_add_group_model = o[3]
    /\ InitLocals
    /\ caller = [outfile |-> outfile, errfile |-> errfile, outcomes |-> <<>>]

\* the checks before the scan, with the output opened for writing before them
Preflight_opens_output_first ==
    /\ pc = "start"
    /\ pc' = IF ~infile_exists \/ outfile.exists THEN "exit" ELSE "scan"
    /\ outfile' = [exists |-> TRUE, content |-> <<>>]
    /\ UNCHANGED << infile_exists, in_lines, errfile, include_helpers,
                    auto_add_user_model, auto_add_group_model, pos, out_lines,
                    current_model, last_model_closed, got_custom_tables,
                    in_model_def, model_name, default_table_name, table_name,
                    custom_table_name, found_user_table, found_group_table,
                    prev_line, lines, errors, caller >>

\* the checks before the scan: a missing input or an output that exists ends
\* the run
Preflight ==
    /\ pc = "start"
    /\ pc' = IF ~infile_exists \/ outfile.exists THEN "exit" ELSE "scan"
    /\ UNCHANGED << infile_exists, in_lines, outfile, errfile, include_helpers,
                    auto_add_user_model, auto_add_group_model, pos, out_lines,
                    current_model, last_model_closed, got_custom_tables,
                    in_model_def, model_name, default_table_name, table_name,
                    custom_table_name, found_user_table, found_group_table,
                    prev_line, lines, errors, caller >>

\* one pass of the loop, over the next of in_lines; sys.exit() and an
\* uncaught exception end the run with nothing written
ScanLine ==
    /\ pc = "scan"
    /\ pos < Len(in_lines)
    /\ LET s == loop_body(scan_state, in_lines[pos + 1])
       IN  /\ pc' = IF s.exited THEN "exit" ELSE "scan"
           /\ pos' = IF s.exited THEN pos ELSE pos + 1
           /\ out_lines' = s.out_lines
           /\ current_model' = s.current_model
           /\ last_model_closed' = s.last_model_closed
           /\ got_custom_tables' = s.got_custom_tables
           /\ in_model_def' = s.in_model_def
           /\ model_name' = s.model_name
           /\ default_table_name' = s.default_table_name
           /\ table_name' = s.table_name
           /\ custom_table_name' = s.custom_table_name
           /\ found_user_table' = s.found_user_table
           /\ found_group_table' = s.found_group_table
           /\ prev_line' = s.prev_line
           /\ lines' = s.lines
           /\ errors' = s.errors
    /\ UNCHANGED << infile_exists, in_lines, outfile, errfile, include_helpers,
                    auto_add_user_model, auto_add_group_model, caller >>

\* the end of the run with the file of errors written whether or not there
\* are errors
Finish_writes_errors_always ==
    /\ pc = "scan"
    /\ pos = Len(in_lines)
    /\ LET closed == IF ~last_model_closed
                     THEN close_model_def(current_model, custom_table_name, model_name,
                                          table_name, default_table_name)
                     ELSE <<>>
           final == out_prefix(include_helpers, auto_add_user_model,
                               auto_add_group_model, got_custom_tables,
                               found_user_table, found_group_table)
                    \o out_lines \o closed
       IN  /\ out_lines' = final
           /\ current_model' = IF ~last_model_closed
                               THEN closed_buffer(current_model, custom_table_name,
                                                  model_name, table_name)
                               ELSE current_model
           /\ outfile' = [exists |-> TRUE, content |-> out_text(final, include_helpers)]
           /\ errfile' = [exists |-> TRUE, content |-> Join(errors, <<"\n">>)]
    /\ pc' = "done"
    /\ UNCHANGED << infile_exists, in_lines, include_helpers, auto_add_user_model,
                    auto_add_group_model, pos, last_model_closed, got_custom_tables,
                    in_model_def, model_name, default_table_name, table_name,
                    custom_table_name, found_user_table, found_group_table,
                    prev_line, lines, errors, caller >>

\* after the loop: the last model is closed unless a def closed it, the
\* prefix is put before the lines, and the files are written
Finish ==
    /\ pc = "scan"
    /\ pos = Len(in_lines)
    /\ LET closed == IF ~last_model_closed
                     THEN close_model_def(current_model, custom_table_name, model_name,
                                          table_name, default_table_name)
                     ELSE <<>>
           final == out_prefix(include_helpers, auto_add_user_model,
                               auto_add_group_model, got_custom_tables,
                               found_user_table, found_group_table)
                    \o out_lines \o closed
       IN  /\ out_lines' = final
           /\ current_model' = IF ~last_model_closed
                               THEN closed_buffer(current_model, custom_table_name,
                                                  model_name, table_name)
                               ELSE current_model
           /\ outfile' = [exists |-> TRUE, content |-> out_text(final, include_helpers)]
           /\ errfile' = IF errors # <<>>
                         THEN [exists |-> TRUE, content |-> Join(errors, <<"\n">>)]
                         ELSE errfile
    /\ pc' = "done"
    /\ UNCHANGED << infile_exists, in_lines, include_helpers, auto_add_user_model,
                    auto_add_group_model, pos, last_model_closed, got_custom_tables,
                    in_model_def, model_name, default_table_name, table_name,
                    custom_table_name, found_user_table, found_group_table,
                    prev_line, lines, errors, caller >>

Next == Preflight \/ ScanLine \/ Finish

(***************************************************************************)
(* Calls of convert()                                                      *)
(***************************************************************************)

\* the most lines of an input of Spec
MaxLines == 3

\* the most lines after the first of an input of SpecTable and SpecFields
MaxBody == 3

\* the sequences of at most n elements of the set S
SeqUpTo(S, n) == UNION {[1..k -> S] : k \in 0..n}

\* every setting of include_helpers, auto_add_user_model, auto_add_group_model
AllOptions == BOOLEAN \X BOOLEAN \X BOOLEAN

\* the options of the call the command line makes: convert(infile, outfile)
DefaultOptions == {<<TRUE, TRUE, TRUE>>}

\* the lines of the inputs of Spec: model starts, an unindented def, a field,
\* a line no branch can parse
BoundaryLines ==
    { <<"c","l","a","s","s"," ","A","(","M","o","d","e","l",")",":">>,
      <<"c","l","a","s","s"," ","U","s","e","r","(","m","o","d","e","l","s",".","M","o","d","e","l",")",":">>,
      <<"c","l","a","s","s"," ","G","r","o","u","p","(","M","o","d","e","l",")",":">>,
      <<"d","e","f"," ","f","(",")",":">>,
      <<" ","n"," ","="," ","m","o","d","e","l","s",".","I","n","t","e","g","e","r","F","i","e","l","d","(",")">>,
      <<" ","y"," ","="," ","g","(","a","=","m","o","d","e","l","s",".","B",")">> }

\* Spec: any lines, any options
Init == InitWith(SeqUpTo(BoundaryLines, MaxLines), AllOptions)

Spec == Init /\ [][Next]_vars

\* the lines that follow 'class A(Model):' in the inputs of SpecTable: the Meta
\* marker, alone and in a comment, a blank line, a table name, a table name
\* that holds the default name app_as, a many-to-many field, a second model
TableLines ==
    { <<" ","c","l","a","s","s"," ","M","e","t","a",":">>,
      <<"#"," ","c","l","a","s","s"," ","M","e","t","a",":">>,
      <<>>,
      <<" "," ","d","b","_","t","a","b","l","e"," ","="," ","u","'","x","'">>,
      <<" "," ","d","b","_","t","a","b","l","e"," ","="," ","\"","a","p","p","_","a","s","2","\"">>,
      <<" ","t"," ","="," ","m","o","d","e","l","s",".","M","a","n","y","T","o","M","a","n","y","F","i","e","l","d","(","B",")">>,
      <<"c","l","a","s","s"," ","B","(","M","o","d","e","l",")",":">> }

\* an input that starts a model A and goes on with `body`
ModelA(body) == << <<"c","l","a","s","s"," ","A","(","M","o","d","e","l",")",":">> >> \o body

\* SpecTable: one model with Meta blocks and table names, any options
InitTable ==
    InitWith({ModelA(b) : b \in SeqUpTo(TableLines, MaxBody)}, AllOptions)

SpecTable == InitTable /\ [][Next]_vars

\* the lines that follow 'class A(Model):' in the inputs of SpecFields: fields
\* of a TYPE_MAP type, of an unknown type (one of them cut at a comma), a
\* primary key, the relationships, a ForeignKey without its call, a
\* TreeForeignKey, a getLogger call
FieldLines ==
    { <<" ","n","M"," ","="," ","m","o","d","e","l","s",".","C","h","a","r","F","i","e","l","d","(","m","a","x","_","l","e","n","g","t","h","=","9",")">>,
      <<" ","c"," ","="," ","m","o","d","e","l","s",".","I","n","t","e","g","e","r","F","i","e","l","d","(",")">>,
      <<" ","x"," ","="," ","m","o","d","e","l","s",".","J","S","O","N","F","i","e","l","d","(","a",",">>,
      <<" ","u"," ","="," ","m","o","d","e","l","s",".","U","U","I","D","F","i","e","l","d","(",")">>,
      <<" ","i","d"," ","="," ","m","o","d","e","l","s",".","A","u","t","o","F","i","e","l","d","(","p","r","i","m","a","r","y","_","k","e","y","=","T","r","u","e",")">>,
      <<" ","k"," ","="," ","m","o","d","e","l","s",".","F","o","r","e","i","g","n","K","e","y","(","B",","," ","n","u","l","l","=","T","r","u","e",")">>,
      <<" ","o"," ","="," ","m","o","d","e","l","s",".","O","n","e","T","o","O","n","e","F","i","e","l","d","(","B",")">>,
      <<" ","r"," ","="," ","m","o","d","e","l","s",".","F","o","r","e","i","g","n","K","e","y">>,
      <<" ","p"," ","="," ","T","r","e","e","F","o","r","e","i","g","n","K","e","y","(","B",","," ","o","n","_","d","e","l","e","t","e","=","m","o","d","e","l","s",".","C",")">>,
      <<" ","l","g"," ","="," ","l","o","g","g","i","n","g",".","g","e","t","L","o","g","g","e","r","(","m","o","d","e","l","s",".","X",")">> }

\* SpecFields: one model and its fields, the options of the command line
InitFields ==
    InitWith({ModelA(b) : b \in SeqUpTo(FieldLines, MaxBody)}, DefaultOptions)

SpecFields == InitFields /\ [][Next]_vars

\* the lines that follow 'class A(Model):' in the inputs of SpecRelations: the
\* relationships to one declaration, named alone, with further arguments, by
\* a dotted reference, in a primary key field, and without a call; a field of
\* a TYPE_MAP type
RelationLines ==
    { <<" ","k"," ","="," ","m","o","d","e","l","s",".","F","o","r","e","i","g","n","K","e","y","(","B",","," ","n","u","l","l","=","T","r","u","e",")">>,
      <<" ","o"," ","="," ","m","o","d","e","l","s",".","O","n","e","T","o","O","n","e","F","i","e","l","d","(","B",")">>,
      <<" ","w"," ","="," ","m","o","d","e","l","s",".","F","o","r","e","i","g","n","K","e","y","(","c","o","n","f",".","U",")">>,
      <<" ","i","d"," ","="," ","m","o","d","e","l","s",".","O","n","e","T","o","O","n","e","F","i","e","l","d","(","B",","," ","p","r","i","m","a","r","y","_","k","e","y","=","T","r","u","e",")">>,
      <<" ","r"," ","="," ","m","o","d","e","l","s",".","O","n","e","T","o","O","n","e","F","i","e","l","d">>,
      <<" ","c"," ","="," ","m","o","d","e","l","s",".","I","n","t","e","g","e","r","F","i","e","l","d","(",")">> }

\* SpecRelations: one model and its relationship fields, the options of the
\* command line
InitRelations ==
    InitWith({ModelA(b) : b \in SeqUpTo(RelationLines, MaxBody)}, DefaultOptions)

SpecRelations == InitRelations /\ [][Next]_vars

\* the most calls of convert() a caller makes with the same arguments
MaxCalls == 2

\* what a call of convert() that has ended leaves to see: how it ended, the
\* two files, the list of errors
Outcome == [pc |-> pc, outfile |-> outfile, errfile |-> errfile, errors |-> errors]

\* a further call that finds the errors, and the models seen, of the call
\* before
ConvertAgain_keeps_errors ==
    /\ pc \in {"done", "exit"}
    /\ Len(caller.outcomes) + 1 < MaxCalls
    /\ caller' = [caller EXCEPT !.outcomes = Append(@, Outcome)]
    /\ outfile' = caller.outfile
    /\ errfile' = caller.errfile
    /\ pc' = "start"
    /\ pos' = 0
    /\ out_lines' = <<>>
    /\ current_model' = <<>>
    /\ last_model_closed' = FALSE
    /\ got_custom_tables' = FALSE
    /\ in_model_def' = FALSE
    /\ model_name' = <<>>
    /\ default_table_name' = <<>>
    /\ table_name' = <<>>
    /\ custom_table_name' = FALSE
    /\ prev_line' = <<>>
    /\ lines' = 1
    /\ UNCHANGED << infile_exists, in_lines, include_helpers, auto_add_user_model,
                    auto_add_group_model, found_user_table, found_group_table,
                    errors >>

\* the caller notes how a call ended, puts the two files back as they were
\* before its first call, and calls convert() once more in the same process
\* with the same arguments: the locals are set anew
ConvertAgain ==
    /\ pc \in {"done", "exit"}
    /\ Len(caller.outcomes) + 1 < MaxCalls
    /\ caller' = [caller EXCEPT !.outcomes = Append(@, Outcome)]
    /\ outfile' = caller.outfile
    /\ errfile' = caller.errfile
    /\ pc' = "start"
    /\ pos' = 0
    /\ out_lines' = <<>>
    /\ current_model' = <<>>
    /\ last_model_closed' = FALSE
    /\ got_custom_tables' = FALSE
    /\ in_model_def' = FALSE
    /\ model_name' = <<>>
    /\ default_table_name' = <<>>
    /\ table_name' = <<>>
    /\ custom_table_name' = FALSE
    /\ found_user_table' = FALSE
    /\ found_group_table' = FALSE
    /\ prev_line' = <<>>
    /\ lines' = 1
    /\ errors' = <<>>
    /\ UNCHANGED << infile_exists, in_lines, include_helpers, auto_add_user_model,
                    auto_add_group_model >>

NextAgain == Next \/ ConvertAgain

\* the lines of the inputs of SpecAgain, one for each thing a call keeps of
\* its scan: a model, a User model, a field of an unknown type, a Meta marker
\* and a table name
AgainLines ==
    { <<"c","l","a","s","s"," ","A","(","M","o","d","e","l",")",":">>,
      <<"c","l","a","s","s"," ","U","s","e","r","(","M","o","d","e","l",")",":">>,
      <<" ","u"," ","="," ","m","o","d","e","l","s",".","U","U","I","D","F","i","e","l","d","(",")">>,
      <<" ","c","l","a","s","s"," ","M","e","t","a",":">>,
      <<" "," ","d","b","_","t","a","b","l","e"," ","="," ","'","x","'">> }

\* SpecAgain: calls of convert() one after the other with the same arguments,
\* any options
InitAgain == InitWith(SeqUpTo(AgainLines, MaxLines), AllOptions)

SpecAgain == InitAgain /\ [][NextAgain]_vars

\* the lines that follow 'class A(Model):' in the inputs of SpecScan: a second
\* model, a def without and with indentation, fields of a TYPE_MAP type and
\* of an unknown type, a comment, the Meta marker and a table name
ScanBodyLines ==
    { <<"c","l","a","s","s"," ","B","(","M","o","d","e","l",")",":">>,
      <<"d","e","f"," ","f","(",")",":">>,
      <<" "," ","d","e","f"," ","g","(","s","e","l","f",")",":">>,
      <<" ","c"," ","="," ","m","o","d","e","l","s",".","I","n","t","e","g","e","r","F","i","e","l","d","(",")">>,
      <<" ","u"," ","="," ","m","o","d","e","l","s",".","U","U","I","D","F","i","e","l","d","(",")">>,
      <<"#"," ","n","o","t","e">>,
      <<" ","c","l","a","s","s"," ","M","e","t","a",":">>,
      <<" "," ","d","b","_","t","a","b","l","e"," ","="," ","'","x","'">> }

\* SpecScan: a model, what closes it and what follows, the options of the
\* command line
InitScan ==
    InitWith({ModelA(b) : b \in SeqUpTo(ScanBodyLines, MaxBody)}, DefaultOptions)

SpecScan == InitScan /\ [][Next]_vars

(***************************************************************************)
(* What the properties below speak of                                      *)
(***************************************************************************)

\* the scan is about to take a line
AtLine == pc = "scan" /\ pos < Len(in_lines)

\* the line the scan is about to take, as read and trimmed
Raw == in_lines[pos + 1]

Cur == Strip(Raw)

\* the trimmed line before a position of the input, '' before the first
LineBefore(p) == IF p > 1 THEN Strip(in_lines[p - 1]) ELSE <<>>

\* the number of the positions of the sequence ls that satisfy Test
CountLines(ls, Test(_)) == Cardinality({i \in 1..Len(ls) : Test(ls[i])})

\* a line of the input that starts a declaration
IsDeclStart(raw) ==
    StartsWith(Strip(raw), <<"c","l","a","s","s">>) /\ EndsWith(Strip(raw), <<"M","o","d","e","l",")",":">>)

\* the declaration-start lines of the input
DeclStarts == CountLines(in_lines, IsDeclStart)

\* the blocks the options alone ask for, before the lines of the scan
EnabledScaffolding ==
    (IF include_helpers THEN IMPORTS ELSE <<>>)
    \o (IF auto_add_user_model THEN USER_MODEL ELSE <<>>)
    \o (IF auto_add_group_model THEN GROUP_MODEL ELSE <<>>)

\* the lines of a finished run that the scan contributed: all that follows
\* the prefix
ScanLines ==
    Drop(out_lines,
         Len(out_prefix(include_helpers, auto_add_user_model, auto_add_group_model,
                        got_custom_tables, found_user_table, found_group_table)))

\* a line 'type <Name> struct {'
IsStructOpen(ol) == StartsWith(ol, <<"t","y","p","e"," ">>) /\ EndsWith(ol, <<" ","s","t","r","u","c","t"," ","{">>)

\* the lines '}' that close a struct: every '}' but the one that ends a
\* TableName accessor, which follows its return line
StructCloses(ls) ==
    Cardinality({i \in 1..Len(ls) :
        /\ ls[i] = <<"}">>
        /\ ~(i > 1 /\ StartsWith(ls[i - 1], <<"\t","r","e","t","u","r","n"," ">>))})

(***************************************************************************)
(* C1: an input without a declaration-start line, under any options,       *)
(* gives exactly the enabled scaffolding blocks: the imports, the default  *)
(* User and Group declarations and the usage example, and no line of a     *)
(* declaration, no closing brace among them.                               *)
(* Refuted by the code: the close after the loop runs although no model    *)
(* was ever opened, and leaves '}' and '' in the output.                   *)
(***************************************************************************)
C1_NoDeclarationOnlyScaffolding ==
    (pc = "done" /\ DeclStarts = 0) =>
        /\ out_lines = EnabledScaffolding
        /\ outfile.content =
               Join(EnabledScaffolding, <<"\n">>)
               \o (IF include_helpers THEN HELPER_REF ELSE <<>>)

(***************************************************************************)
(* C2: after a scan to the end, the struct-opening lines and the           *)
(* struct-closing lines the scan contributed are each as many as the       *)
(* declaration-start lines of the input.                                   *)
(* Refuted by the code on an input without declarations (C1): one closing  *)
(* line, no opening line.                                                  *)
(***************************************************************************)
C2_OpenCloseCountsMatchDeclarations ==
    pc = "done" =>
        /\ CountLines(ScanLines, IsStructOpen) = DeclStarts
        /\ StructCloses(ScanLines) = DeclStarts

\* the counts do match on every input that holds a declaration
C2_CountsMatchWhenDeclared ==
    (pc = "done" /\ DeclStarts > 0) =>
        /\ CountLines(ScanLines, IsStructOpen) = DeclStarts
        /\ StructCloses(ScanLines) = DeclStarts

\* a step that closes the open declaration: at an unindented def, at the
\* next declaration start, or after the last line
Closes ==
    /\ pc = "scan"
    /\ pc' # "exit"
    /\ in_model_def
    /\ (pos < Len(in_lines) => StartsWith(Raw, <<"d","e","f"," ">>) \/ IsDeclStart(Raw))

\* the lines a step that closes a declaration adds to the output
Emitted ==
    IF pc' = "done"
    THEN Drop(out_lines',
              Len(out_lines)
              + Len(out_prefix(include_helpers, auto_add_user_model,
                               auto_add_group_model, got_custom_tables,
                               found_user_table, found_group_table)))
    ELSE Drop(out_lines', Len(out_lines))

\* the return line of a TableName accessor
IsAccessorReturn(ol) == StartsWith(ol, <<"\t","r","e","t","u","r","n"," ","\"">>)

\* the line of a many-to-many field, which holds the join-table tag
IsJoinTableTag(ol) == Contains(ol, <<"m","a","n","y","2","m","a","n","y",":">>)

\* the buffer holds a join-table tag rendered with the default identifier
RenderedWithDefault ==
    \E i \in 1..Len(current_model) :
        Contains(current_model[i], <<"m","a","n","y","2","m","a","n","y",":">> \o default_table_name \o <<"_">>)

(***************************************************************************)
(* C3: a declaration whose explicit table identifier was recorded after a  *)
(* many-to-many field had been rendered with the default identifier is     *)
(* emitted with an accessor that returns the explicit identifier, with the *)
(* explicit identifier in every join-table tag, and with the default       *)
(* identifier in none of these lines.                                      *)
(* Refuted by the code: the substitution at close time also rewrites the   *)
(* accessor, which already held the explicit identifier, so an explicit    *)
(* identifier that contains the default one comes out wrong.               *)
(***************************************************************************)
C3_LateTableNameUsedThroughout ==
    [][(Closes /\ custom_table_name /\ RenderedWithDefault) =>
          /\ \E i \in 1..Len(Emitted) : Emitted[i] = <<"\t","r","e","t","u","r","n"," ","\"">> \o table_name \o <<"\"">>
          /\ \A i \in 1..Len(Emitted) :
                IsJoinTableTag(Emitted[i]) =>
                    Contains(Emitted[i], <<"m","a","n","y","2","m","a","n","y",":">> \o table_name \o <<"_">>)
          /\ \A i \in 1..Len(Emitted) :
                (IsJoinTableTag(Emitted[i]) \/ IsAccessorReturn(Emitted[i])) =>
                    ~Contains(Emitted[i], default_table_name)]_vars

\* the claim of C3 does hold of every explicit identifier that does not
\* contain the default one
C3_HoldsWhenNamesAreApart ==
    [][(Closes /\ custom_table_name /\ RenderedWithDefault
           /\ ~Contains(table_name, default_table_name)) =>
          /\ \E i \in 1..Len(Emitted) : Emitted[i] = <<"\t","r","e","t","u","r","n"," ","\"">> \o table_name \o <<"\"">>
          /\ \A i \in 1..Len(Emitted) :
                IsJoinTableTag(Emitted[i]) =>
                    Contains(Emitted[i], <<"m","a","n","y","2","m","a","n","y",":">> \o table_name \o <<"_">>)
          /\ \A i \in 1..Len(Emitted) :
                (IsJoinTableTag(Emitted[i]) \/ IsAccessorReturn(Emitted[i])) =>
                    ~Contains(Emitted[i], default_table_name)]_vars

(***************************************************************************)
(* C4, as claimed: closing a declaration that recorded no explicit table   *)
(* identifier emits its buffered lines unchanged and appends a TableName   *)
(* accessor that returns the default identifier.                           *)
(* Refuted by the code: the accessor is written only for an explicit       *)
(* identifier.                                                             *)
(***************************************************************************)
C4_DefaultAccessorAppended ==
    [][(Closes /\ ~custom_table_name) =>
          /\ Take(Emitted, Len(current_model)) = current_model
          /\ \E i \in 1..Len(Emitted) :
                Emitted[i] = <<"\t","r","e","t","u","r","n"," ","\"">> \o default_table_name \o <<"\"">>]_vars

(***************************************************************************)
(* C4, amended: closing a declaration that recorded no explicit table      *)
(* identifier emits its buffered lines unchanged, then '}' and an empty    *)
(* line, and no TableName accessor.                                        *)
(***************************************************************************)
C4_DefaultClosePassesThrough ==
    [][(Closes /\ ~custom_table_name) =>
          Emitted = current_model \o << <<"}">>, <<>> >>]_vars

\* a run has closed a declaration that has a field and no explicit identifier
C4_Witness ==
    /\ pc = "done"
    /\ ~custom_table_name
    /\ in_model_def
    /\ Len(current_model) > 4

\* how many times the text `block` stands in the text s
Occurrences(s, block) ==
    Cardinality({i \in 1..(Len(s) - Len(block) + 1) :
                    \A k \in 1..Len(block) : s[i + k - 1] = block[k]})

\* the default User and Group declarations as they stand in a file
UserModelText == Join(USER_MODEL, <<"\n">>)

GroupModelText == Join(GROUP_MODEL, <<"\n">>)

\* the input holds a declaration-start line for the declaration `name`
Declares(name) ==
    \E i \in 1..Len(in_lines) :
        /\ IsDeclStart(in_lines[i])
        /\ StartsWith(Strip(in_lines[i]), <<"c","l","a","s","s"," ">> \o name \o <<"(">>)

(***************************************************************************)
(* C5: the output of a finished run holds the default User declaration     *)
(* once when auto_add_user_model is on and the input declares no User, and *)
(* not at all otherwise, whatever auto_add_group_model is; and the same of *)
(* the default Group declaration with auto_add_group_model and Group.      *)
(***************************************************************************)
C5_DefaultDeclarationsFollowTheirOwnToggle ==
    pc = "done" =>
        /\ outfile.exists
        /\ Occurrences(outfile.content, UserModelText) =
               (IF auto_add_user_model /\ ~Declares(<<"U","s","e","r">>) THEN 1 ELSE 0)
        /\ Occurrences(outfile.content, GroupModelText) =
               (IF auto_add_group_model /\ ~Declares(<<"G","r","o","u","p">>) THEN 1 ELSE 0)

\* a run with the User option on and the Group option off, on an input that
\* declares a Group and no User, has written the default User declaration
\* and no default Group declaration
C5_Witness ==
    /\ pc = "done"
    /\ auto_add_user_model
    /\ ~auto_add_group_model
    /\ Declares(<<"G","r","o","u","p">>)
    /\ ~Declares(<<"U","s","e","r">>)
    /\ Occurrences(outfile.content, UserModelText) = 1
    /\ Occurrences(outfile.content, GroupModelText) = 0

(***************************************************************************)
(* C6: a run that ends early - the input is missing, the output exists, a  *)
(* line cannot be parsed - leaves the output file and the diagnostics file *)
(* as they were: no step but the one that completes the run changes them,  *)
(* however many lines were scanned before.                                 *)
(***************************************************************************)
C6_NothingWrittenUnlessCompleted ==
    [][pc' # "done" => (outfile' = outfile /\ errfile' = errfile)]_vars

\* a run has ended at a line that cannot be parsed, after it buffered lines
\* of a declaration
C6_Witness ==
    /\ pc = "exit"
    /\ pos >= 2
    /\ Len(current_model) >= 2
    /\ outfile = NoFile

\* the line the scan is about to take is a line of the open declaration:
\* it neither closes it nor starts another
InOpenDeclaration ==
    /\ AtLine
    /\ in_model_def
    /\ ~StartsWith(Raw, <<"d","e","f"," ">>)
    /\ ~IsDeclStart(Raw)

\* the text of a line between its first '=' and its second
CallText(l) == Strip(Split(l, <<"=">>)[2])

\* a line that assigns a field: it holds '=' and 'models.', and is neither a
\* comment nor a db_table line that follows the Meta marker
IsFieldAssignment(l, prev) ==
    /\ Contains(l, <<"=">>)
    /\ Contains(l, <<"m","o","d","e","l","s",".">>)
    /\ ~StartsWith(l, <<"#">>)
    /\ ~StartsWith(l, <<"\"","\"","\"">>)
    /\ ~(Contains(l, <<"d","b","_","t","a","b","l","e">>) /\ Contains(prev, <<"c","l","a","s","s"," ","M","e","t","a",":">>))

\* the field name of a line: what stands left of '='
FieldName(l) == Strip(Take(l, Find(l, <<"=">>) - 1))

\* the line names a constructor: its call text holds a '.'
HasConstructor(l) == Contains(CallText(l), <<".">>)

\* the constructor name of a line: the token between the first '.' and the
\* first '(' that follows it
Constructor(l) ==
    LET after == Drop(CallText(l), Find(CallText(l), <<".">>))
    IN  Strip(IF Contains(after, <<"(">>) THEN Take(after, Find(after, <<"(">>) - 1) ELSE after)

\* the primary-key alias case
IsPrimaryKeyAlias(l) ==
    FieldName(l) \in {<<"i","d">>, <<"p","k">>, <<"I","D">>, <<"P","K">>} /\ Contains(l, <<"p","r","i","m","a","r","y","_","k","e","y">>)

RelationshipKinds == {<<"F","o","r","e","i","g","n","K","e","y">>, <<"O","n","e","T","o","O","n","e","F","i","e","l","d">>, <<"M","a","n","y","T","o","M","a","n","y","F","i","e","l","d">>}

\* a relationship field line whose constructor has no call to take the
\* related declaration from
IsMalformedRelationship(l, prev) ==
    /\ IsFieldAssignment(l, prev)
    /\ HasConstructor(l)
    /\ ~IsPrimaryKeyAlias(l)
    /\ Constructor(l) \in RelationshipKinds
    /\ ~Contains(Drop(CallText(l), Find(CallText(l), <<".">>)), <<"(">>)

\* the lines a step added to the buffer of the open declaration
Buffered == Drop(current_model', Len(current_model))

(***************************************************************************)
(* C7: a relationship field line of an open declaration from which the     *)
(* related declaration cannot be taken is emitted with the sentinel type   *)
(* ######## and adds a Diagnostic that carries the number of the line.     *)
(* Refuted by the code: the sentinel is used, no Diagnostic is recorded.   *)
(***************************************************************************)
C7_MalformedRelationshipDiagnosed ==
    [][(InOpenDeclaration /\ IsMalformedRelationship(Cur, prev_line)) =>
          /\ \E i \in 1..Len(Buffered) : EndsWith(Buffered[i], <<"\t","#","#","#","#","#","#","#","#">>)
          /\ Len(errors') = Len(errors) + 1
          /\ StartsWith(errors'[Len(errors')], IntStr(pos + 1) \o <<":">>)]_vars

\* the sentinel alone is as claimed
C7_SentinelUsed ==
    [][(InOpenDeclaration /\ IsMalformedRelationship(Cur, prev_line)) =>
          \E i \in 1..Len(Buffered) : EndsWith(Buffered[i], <<"\t","#","#","#","#","#","#","#","#">>)]_vars

\* a field line whose constructor is in the scalar-type table, the
\* primary-key alias case apart
IsScalarField(l, prev) ==
    /\ IsFieldAssignment(l, prev)
    /\ HasConstructor(l)
    /\ ~IsPrimaryKeyAlias(l)
    /\ TYPE_MAP(Constructor(l)) # <<>>

(***************************************************************************)
(* C9, as claimed: a scalar field line of an open declaration appends      *)
(* exactly one field line: the capitalised field name, the table's type    *)
(* for the constructor, and a column tag that is the field name in lower   *)
(* case.                                                                   *)
(* Refuted by the code: the column tag is the field name as written.       *)
(***************************************************************************)
C9_ScalarFieldLowercaseColumn ==
    [][(InOpenDeclaration /\ IsScalarField(Cur, prev_line)) =>
          Buffered =
              << <<"\t">> \o Capitalize(FieldName(Cur)) \o <<"\t","\t">>
                     \o TYPE_MAP(Constructor(Cur))
                     \o <<"\t",Backtick,"g","o","r","m",":","\"","c","o","l","u","m","n",":">> \o Lower(FieldName(Cur)) \o <<"\"",Backtick>> >>]_vars

(***************************************************************************)
(* C9, amended: a scalar field line of an open declaration appends exactly *)
(* one field line: the field name with its first letter in upper case and  *)
(* the rest in lower case, the table's type for the constructor, and a     *)
(* column tag that is the field name as written; nothing else of the       *)
(* buffer and no Diagnostic changes.                                       *)
(***************************************************************************)
C9_ScalarFieldColumnAsWritten ==
    [][(InOpenDeclaration /\ IsScalarField(Cur, prev_line)) =>
          /\ Buffered =
                 << <<"\t">> \o Capitalize(FieldName(Cur)) \o <<"\t","\t">>
                        \o TYPE_MAP(Constructor(Cur))
                        \o <<"\t",Backtick,"g","o","r","m",":","\"","c","o","l","u","m","n",":">> \o FieldName(Cur) \o <<"\"",Backtick>> >>
          /\ Take(current_model', Len(current_model)) = current_model
          /\ errors' = errors]_vars

\* the CharField nM has been taken: a string named Nm in the column nM
C9_Witness ==
    /\ pc = "scan"
    /\ pos = 2
    /\ Strip(in_lines[2]) = <<"n","M"," ","="," ","m","o","d","e","l","s",".","C","h","a","r","F","i","e","l","d","(","m","a","x","_","l","e","n","g","t","h","=","9",")">>
    /\ current_model[Len(current_model)] = <<"\t","N","m","\t","\t","s","t","r","i","n","g","\t",Backtick,"g","o","r","m",":","\"","c","o","l","u","m","n",":","n","M","\"",Backtick>>

\* a db_table assignment that is not a comment
IsDbTableAssignment(l) ==
    Contains(l, <<"d","b","_","t","a","b","l","e">>) /\ Contains(l, <<"=">>) /\ ~StartsWith(l, <<"#">>)

\* the nearest non-empty trimmed line among the first p lines of the input,
\* '' when there is none
RECURSIVE NearestNonEmpty(_)
NearestNonEmpty(p) ==
    IF p = 0 THEN <<>>
    ELSE IF Strip(in_lines[p]) # <<>> THEN Strip(in_lines[p])
    ELSE NearestNonEmpty(p - 1)

\* the step took the line as the explicit table identifier of the declaration
Recognised ==
    /\ custom_table_name'
    /\ got_custom_tables'
    /\ table_name' = custom_name(Cur)

\* the step left the table identifier of the declaration alone
NotRecognised == UNCHANGED << custom_table_name, got_custom_tables, table_name >>

(***************************************************************************)
(* C8, as claimed: in an open declaration a db_table assignment that is    *)
(* not a comment is taken as the explicit table identifier exactly when    *)
(* the nearest non-empty trimmed line before it is 'class Meta:'; taken or *)
(* not, it adds no line to the buffer.                                     *)
(* Refuted by the code: it looks at the line directly before, blank or     *)
(* not, and for 'class Meta:' anywhere in it.                              *)
(***************************************************************************)
C8_TableNameAfterNearestNonEmptyMarker ==
    [][(InOpenDeclaration /\ IsDbTableAssignment(Cur)) =>
          /\ IF NearestNonEmpty(pos) = <<"c","l","a","s","s"," ","M","e","t","a",":">> THEN Recognised ELSE NotRecognised
          /\ current_model' = current_model]_vars

(***************************************************************************)
(* C8, amended: in an open declaration a db_table assignment that is not a *)
(* comment is taken as the explicit table identifier exactly when the line *)
(* directly before it, blank lines counted, holds 'class Meta:' once       *)
(* trimmed; taken or not, a db_table line without 'models.' adds no line   *)
(* to the buffer.                                                          *)
(***************************************************************************)
C8_TableNameAfterMarkerLine ==
    [][(InOpenDeclaration /\ IsDbTableAssignment(Cur)) =>
          /\ IF Contains(LineBefore(pos + 1), <<"c","l","a","s","s"," ","M","e","t","a",":">>)
             THEN Recognised
             ELSE NotRecognised
          /\ ~Contains(Cur, <<"m","o","d","e","l","s",".">>) => current_model' = current_model]_vars

\* a db_table line directly after the marker has been taken, and one after
\* a blank line has not
C8_Witness ==
    /\ pc = "scan"
    /\ pos = 4
    /\ in_lines[2] = <<" ","c","l","a","s","s"," ","M","e","t","a",":">>
    /\ in_lines[3] = <<>>
    /\ IsDbTableAssignment(Strip(in_lines[4]))
    /\ ~custom_table_name
    /\ table_name = <<"a","p","p","_","a","s">>

\* the other half: a db_table line directly after the marker has been taken
C8_TakenAfterMarker ==
    /\ pc = "scan"
    /\ pos = 3
    /\ in_lines[2] = <<" ","c","l","a","s","s"," ","M","e","t","a",":">>
    /\ in_lines[3] = <<" "," ","d","b","_","t","a","b","l","e"," ","="," ","u","'","x","'">>
    /\ custom_table_name
    /\ table_name = <<"x">>
    /\ current_model = << <<"t","y","p","e"," ","A"," ","s","t","r","u","c","t"," ","{">> >>

\* a field line whose constructor is neither in the scalar-type table nor a
\* relationship kind, that continues no line and calls no getLogger
IsUnknownField(l, prev) ==
    /\ IsFieldAssignment(l, prev)
    /\ HasConstructor(l)
    /\ TYPE_MAP(Constructor(l)) = <<>>
    /\ Constructor(l) \notin RelationshipKinds
    /\ ~EndsWith(prev, <<",">>)
    /\ ~EndsWith(prev, <<"\\">>)
    /\ ~Contains(l, <<"g","e","t","L","o","g","g","e","r">>)

\* the step appended one Diagnostic and one comment, both with the number of
\* the line, and kept what was there
DiagnosedInPlace ==
    /\ Len(errors') = Len(errors) + 1
    /\ Take(errors', Len(errors)) = errors
    /\ StartsWith(errors'[Len(errors')], IntStr(pos + 1) \o <<":"," ">>)
    /\ Len(current_model') = Len(current_model) + 1
    /\ Take(current_model', Len(current_model)) = current_model
    /\ StartsWith(current_model'[Len(current_model')], <<"\t","/","/"," ">>)
    /\ Contains(current_model'[Len(current_model')], <<" ","l","i","n","e"," ">> \o IntStr(pos + 1) \o <<",">>)
    /\ pc' = "scan"

\* whatever line comes next, the scan takes it as it would with the line
\* before the one just taken as its previous line
NextLineAsIfAbsent ==
    \A n \in FieldLines :
        loop_body(scan_state', n) = loop_body([scan_state' EXCEPT !.prev_line = prev_line], n)

(***************************************************************************)
(* C10, as claimed: an unknown-type field line of an open declaration adds *)
(* one Diagnostic with the 1-based number of the line and one placeholder  *)
(* comment with the same number, removes and changes nothing, and the scan *)
(* goes on to take the later lines as if the line had been absent.         *)
(* Refuted by the code twice: a primary-key alias line of an unknown type  *)
(* is a primary key and no Diagnostic; and the unknown line is the         *)
(* previous line of the next, which is skipped as a continuation when the  *)
(* unknown line ends in ','.                                               *)
(***************************************************************************)
C10_UnknownFieldDiagnosedAsIfAbsent ==
    [][(InOpenDeclaration /\ IsUnknownField(Cur, LineBefore(pos + 1))) =>
          (DiagnosedInPlace /\ NextLineAsIfAbsent)]_vars

\* the second refutation alone: the primary-key alias case set apart
C10_AsIfAbsentAlone ==
    [][(InOpenDeclaration /\ IsUnknownField(Cur, LineBefore(pos + 1))
           /\ ~IsPrimaryKeyAlias(Cur)) =>
          NextLineAsIfAbsent]_vars

(***************************************************************************)
(* C10, amended: an unknown-type field line of an open declaration that is *)
(* not the primary-key alias case adds one Diagnostic with the 1-based     *)
(* number of the line and one placeholder comment with the same number,    *)
(* removes and changes nothing, and the scan goes on: the line becomes the *)
(* previous line of the next, the line counter advances, and nothing else  *)
(* of the scan changes.                                                    *)
(***************************************************************************)
C10_UnknownFieldDiagnosed ==
    [][(InOpenDeclaration /\ IsUnknownField(Cur, LineBefore(pos + 1))
           /\ ~IsPrimaryKeyAlias(Cur)) =>
          /\ DiagnosedInPlace
          /\ prev_line' = Cur
          /\ lines' = lines + 1
          /\ pos' = pos + 1
          /\ UNCHANGED << out_lines, last_model_closed, got_custom_tables,
                          in_model_def, model_name, default_table_name, table_name,
                          custom_table_name, found_user_table, found_group_table,
                          outfile, errfile >>]_vars

\* the third line of an input, of an unknown type, has been diagnosed after
\* a field that was translated
C10_Witness ==
    /\ pc = "scan"
    /\ pos = 3
    /\ errors = << <<"3",":"," ","U","n","k","n","o","w","n","/","u","n","h","a","n","d","l","e","d"," ","l","i","n","e",":"," ","U","U","I","D","F","i","e","l","d">> >>
    /\ current_model =
           << <<"t","y","p","e"," ","A"," ","s","t","r","u","c","t"," ","{">>,
              <<"\t","C","\t","\t","i","n","t","\t",Backtick,"g","o","r","m",":","\"","c","o","l","u","m","n",":","c","\"",Backtick>>,
              <<"\t","/","/"," ","!","!"," ","u","n","k","n","o","w","n"," ","t","y","p","e"," ","i","n"," ","l","i","n","e"," ","3",","," ","o","r","i","g","i","n","a","l",":"," ","u"," ","="," ","m","o","d","e","l","s",".","U","U","I","D","F","i","e","l","d","(",")">> >>

\* the first positional argument of the constructor call of a line: the
\* token between the first '(' and the first ',' after it, parentheses
\* stripped; '' when the line holds no such call
RelatedName(l) ==
    LET call == Drop(CallText(l), Find(CallText(l), <<".">>))
    IN  IF ~Contains(call, <<"(">>) THEN <<>>
        ELSE StripChars(Strip(Split(Drop(call, Find(call, <<"(">>)), <<",">>)[1]), {"(", ")"})

\* a ForeignKey or OneToOneField line that names a related declaration, the
\* primary-key alias case apart
IsRelationTo(l, prev) ==
    /\ IsFieldAssignment(l, prev)
    /\ HasConstructor(l)
    /\ ~IsPrimaryKeyAlias(l)
    /\ Constructor(l) \in {<<"F","o","r","e","i","g","n","K","e","y">>, <<"O","n","e","T","o","O","n","e","F","i","e","l","d">>}
    /\ RelatedName(l) # <<>>

\* the identifier field and the association field of a relationship line
IdentifierField(l) ==
    <<"\t">> \o Capitalize(FieldName(l)) \o <<"I","D","\t","\t","i","n","t","6","4","\t",Backtick,"g","o","r","m",":","\"","f","o","r","e","i","g","n","K","e","y",":">>
         \o FieldName(l) \o <<"_","i","d">>
         \o (IF Constructor(l) = <<"F","o","r","e","i","g","n","K","e","y">> THEN <<";","a","s","s","o","c","i","a","t","i","o","n","_","f","o","r","e","i","g","n","k","e","y",":","i","d">> ELSE <<>>)
         \o <<"\"",Backtick>>

AssociationField(l) ==
    <<"\t">> \o Capitalize(FieldName(l)) \o <<"\t","\t">> \o RelatedName(l)

(***************************************************************************)
(* C11: a ForeignKey line of an open declaration that names a related      *)
(* declaration appends exactly two lines to the buffer, in this order: the *)
(* int64 identifier field <Field>ID tagged foreignKey:<field>_id with the  *)
(* association_foreignkey component, then the association field <Field>    *)
(* typed as the related declaration; a OneToOneField line appends the same *)
(* two lines without the association_foreignkey component; neither records *)
(* a Diagnostic.  The related declaration is the first positional argument *)
(* of the call, and the primary-key alias case, which is translated before *)
(* the relationships, is set apart.                                        *)
(* Refuted by the code: it cuts the call at its first '.', so a related    *)
(* declaration named by a dotted reference loses all that follows the dot. *)
(***************************************************************************)
C11_RelationshipAppendsTwoLines ==
    [][(InOpenDeclaration /\ IsRelationTo(Cur, prev_line)) =>
          /\ Buffered = << IdentifierField(Cur), AssociationField(Cur) >>
          /\ Take(current_model', Len(current_model)) = current_model
          /\ errors' = errors]_vars

\* the claim of C11 does hold of every related declaration named without a
\* dot
C11_HoldsOfUndottedNames ==
    [][(InOpenDeclaration /\ IsRelationTo(Cur, prev_line)
           /\ ~Contains(RelatedName(Cur), <<".">>)) =>
          /\ Buffered = << IdentifierField(Cur), AssociationField(Cur) >>
          /\ Take(current_model', Len(current_model)) = current_model
          /\ errors' = errors]_vars

\* the claim without the primary-key alias case set apart: a relationship
\* line that is a primary key field appends the one line of a primary key
C11_PrimaryKeyAliasIncluded ==
    [][(InOpenDeclaration /\ IsFieldAssignment(Cur, prev_line) /\ HasConstructor(Cur)
           /\ Constructor(Cur) \in {<<"F","o","r","e","i","g","n","K","e","y">>, <<"O","n","e","T","o","O","n","e","F","i","e","l","d">>}
           /\ RelatedName(Cur) # <<>> /\ ~Contains(RelatedName(Cur), <<".">>)) =>
          Buffered = << IdentifierField(Cur), AssociationField(Cur) >>]_vars

DiagnosedLines ==
    {p \in 1..Len(in_lines) :
        \E i \in 1..Len(errors) : StartsWith(errors[i], IntStr(p) \o <<":"," ">>)}

\* the number of the source line of an entry of errors
SourceLine(e) ==
    CHOOSE p \in 1..Len(in_lines) : StartsWith(e, IntStr(p) \o <<":"," ">>)

\* the entries of errors stand in the order of their source lines, one for
\* each line, and each carries what its line holds: the line itself for a
\* TreeForeignKey, the constructor for an unknown type
InSourceOrder ==
    /\ \A i \in 1..Len(errors) :
          \E p \in 1..Len(in_lines) :
              \/ errors[i] = IntStr(p) \o <<":"," ">> \o Strip(in_lines[p])
              \/ /\ Contains(Strip(in_lines[p]), <<"=">>)
                 /\ HasConstructor(Strip(in_lines[p]))
                 /\ errors[i] = IntStr(p) \o <<":"," ","U","n","k","n","o","w","n","/","u","n","h","a","n","d","l","e","d"," ","l","i","n","e",":"," ">>
                                    \o Constructor(Strip(in_lines[p]))
    /\ \A i, j \in 1..Len(errors) :
          i < j => SourceLine(errors[i]) < SourceLine(errors[j])
    /\ Cardinality(DiagnosedLines) = Len(errors)

(***************************************************************************)
(* C13: when convert() has run to completion the output file is written,   *)
(* with the lines of the run joined by newlines and the usage example      *)
(* after them when include_helpers is on; the file at the output path plus *)
(* '.errors' is written if and only if the scan recorded a Diagnostic -     *)
(* without one it is as it was before the call - and it holds the          *)
(* Diagnostics, one on a line, in the order of their source lines.         *)
(***************************************************************************)
C13_FilesWrittenOnCompletion ==
    pc = "done" =>
        /\ outfile = [exists |-> TRUE,
                      content |-> Join(out_lines, <<"\n">>)
                                  \o (IF include_helpers THEN HELPER_REF ELSE <<>>)]
        /\ errors # <<>> => errfile = [exists |-> TRUE, content |-> Join(errors, <<"\n">>)]
        /\ errors = <<>> => errfile = caller.errfile
        /\ InSourceOrder

\* a run has completed with two Diagnostics, of the lines 2 and 4, and has
\* written them over a file of errors that was there
C13_Witness ==
    /\ pc = "done"
    /\ Len(errors) = 2
    /\ DiagnosedLines = {2, 4}
    /\ caller.errfile = OldFile
    /\ errfile.content = errors[1] \o <<"\n">> \o errors[2]

\* a run has completed without a Diagnostic and has left alone the file of
\* errors that was there
C13_NoDiagnosticNoFile ==
    /\ pc = "done"
    /\ errors = <<>>
    /\ Len(in_lines) = 3
    /\ caller.errfile = OldFile
    /\ errfile = OldFile
    /\ outfile.exists

\* the name a declaration-start line declares
DeclaredName(raw) == Split(Split(Strip(raw), <<" ">>)[2], <<"(">>)[1]

\* the struct-opening lines of the declarations of the input, in source order
DeclaredStructs ==
    LET starts == SelectSeq(in_lines, IsDeclStart)
    IN  [i \in 1..Len(starts) |-> <<"t","y","p","e"," ">> \o DeclaredName(starts[i]) \o <<" ","s","t","r","u","c","t"," ","{">>]

\* the line i of ls is a '}' that closes a struct, not a TableName accessor
IsStructClose(ls, i) ==
    ls[i] = <<"}">> /\ ~(i > 1 /\ StartsWith(ls[i - 1], <<"\t","r","e","t","u","r","n"," ">>))

\* every struct-opening line of ls is followed by exactly one struct close
\* before the next struct-opening line, or the end
EachClosedOnce(ls) ==
    \A p \in 1..Len(ls) :
        IsStructOpen(ls[p]) =>
            LET later == {q \in (p + 1)..Len(ls) : IsStructOpen(ls[q])}
                next == IF later = {} THEN Len(ls) + 1
                        ELSE CHOOSE q \in later : \A r \in later : q <= r
            IN  Cardinality({i \in (p + 1)..(next - 1) : IsStructClose(ls, i)}) = 1

\* the buffer holds the one declaration that is open, and nothing when none is
AtMostOneOpen ==
    pc = "scan" =>
        /\ CountLines(current_model, IsStructOpen) <= 1
        /\ in_model_def <=> current_model # <<>>
        /\ in_model_def => IsStructOpen(current_model[1])
        /\ last_model_closed => ~in_model_def

\* the output of a completed run holds the declarations of the input in source
\* order, each closed once
DeclarationsInOrder ==
    pc = "done" =>
        /\ SelectSeq(ScanLines, IsStructOpen) = DeclaredStructs
        /\ EachClosedOnce(ScanLines)

\* the complete closed text of the open declaration is appended to the
\* output: its buffered lines in their order (with the explicit table
\* identifier for the default one, when one was recorded), '}' and an empty
\* line, and the accessor of an explicit identifier
ClosedTextAppended ==
    /\ (pc' = "scan" => Take(out_lines', Len(out_lines)) = out_lines)
    /\ Len(Emitted) = Len(current_model) + (IF custom_table_name THEN 6 ELSE 2)
    /\ \A i \in 1..Len(current_model) :
          Emitted[i] = IF custom_table_name
                       THEN Replace(current_model[i], default_table_name, table_name)
                       ELSE current_model[i]
    /\ Emitted[Len(current_model) + 1] = <<"}">>
    /\ Emitted[Len(current_model) + 2] = <<>>
    /\ IsStructOpen(Emitted[1])

\* a step of the scan: a boundary closes the declaration that is open before
\* anything of the next is buffered, and any other line only adds to the end
\* of the buffer and leaves the output alone
ClosesBeforeOpening ==
    /\ Closes => ClosedTextAppended
    /\ (Closes /\ pos < Len(in_lines) /\ IsDeclStart(Raw)) =>
          current_model' = << <<"t","y","p","e"," ">> \o DeclaredName(Raw) \o <<" ","s","t","r","u","c","t"," ","{">> >>
    /\ (Closes /\ pos < Len(in_lines) /\ ~IsDeclStart(Raw)) =>
          (current_model' = <<>> /\ ~in_model_def')
    /\ (AtLine /\ ~Closes /\ pc' = "scan") =>
          /\ out_lines' = out_lines
          /\ Take(current_model', Len(current_model)) = current_model

(***************************************************************************)
(* C14: at every step of the scan at most one declaration is open, and     *)
(* every declaration is closed exactly once: by the next declaration-start *)
(* line, by an unindented def line, or by the end of the input.  A         *)
(* declaration-start line that arrives while a declaration is open appends *)
(* the complete closed text of that declaration to the output before the   *)
(* first line of the new one is buffered; the declarations stand in the    *)
(* output in source order, and the lines of each in the order of their     *)
(* source lines.                                                           *)
(***************************************************************************)
C14_OneOpenClosedOnceInOrder ==
    /\ []AtMostOneOpen
    /\ []DeclarationsInOrder
    /\ [][ClosesBeforeOpening]_vars

\* a run has completed on an input whose second declaration started while the
\* first, with a field, was open, and had a field of its own
C14_Witness ==
    /\ pc = "done"
    /\ in_lines = << <<"c","l","a","s","s"," ","A","(","M","o","d","e","l",")",":">>, <<" ","c"," ","="," ","m","o","d","e","l","s",".","I","n","t","e","g","e","r","F","i","e","l","d","(",")">>,
                     <<"c","l","a","s","s"," ","B","(","M","o","d","e","l",")",":">>, <<" ","u"," ","="," ","m","o","d","e","l","s",".","U","U","I","D","F","i","e","l","d","(",")">> >>
    /\ ScanLines = << <<"t","y","p","e"," ","A"," ","s","t","r","u","c","t"," ","{">>, <<"\t","C","\t","\t","i","n","t","\t",Backtick,"g","o","r","m",":","\"","c","o","l","u","m","n",":","c","\"",Backtick>>, <<"}">>, <<>>,
                      <<"t","y","p","e"," ","B"," ","s","t","r","u","c","t"," ","{">>,
                      <<"\t","/","/"," ","!","!"," ","u","n","k","n","o","w","n"," ","t","y","p","e"," ","i","n"," ","l","i","n","e"," ","4",","," ","o","r","i","g","i","n","a","l",":"," ","u"," ","="," ","m","o","d","e","l","s",".","U","U","I","D","F","i","e","l","d","(",")">>,
                      <<"}">>, <<>> >>

\* no declaration is open: the scanner is idle
Idle == ~in_model_def

\* an unindented def line closes the open declaration and leaves the scanner
\* idle
DefClosesDeclaration ==
    (AtLine /\ in_model_def /\ StartsWith(Raw, <<"d","e","f"," ">>)) =>
        /\ ClosedTextAppended
        /\ Idle'
        /\ current_model' = <<>>
        /\ last_model_closed'
        /\ pc' = "scan"

\* an indented def line closes nothing
IndentedDefKeepsOpen ==
    (AtLine /\ in_model_def /\ ~StartsWith(Raw, <<"d","e","f"," ">>) /\ StartsWith(Cur, <<"d","e","f"," ">>)) =>
        /\ in_model_def'
        /\ ~last_model_closed'
        /\ out_lines' = out_lines
        /\ Take(current_model', Len(current_model)) = current_model

\* a line taken while the scanner is idle that starts no declaration changes
\* nothing of the output, the Diagnostics, the table identifiers and the flag
\* of explicit identifiers, and the scanner stays idle
IdleLineChangesNothing ==
    (AtLine /\ Idle /\ ~IsDeclStart(Raw)) =>
        /\ UNCHANGED << out_lines, errors, table_name, default_table_name,
                        custom_table_name, got_custom_tables, current_model,
                        in_model_def, last_model_closed, model_name >>
        /\ pc' = "scan"

\* the end of the input after a def has closed the last declaration closes
\* nothing: the output is the prefix and the lines of the scan
ClosedIsNotClosedAgain ==
    (pc = "scan" /\ pos = Len(in_lines) /\ last_model_closed) =>
        out_lines' = out_prefix(include_helpers, auto_add_user_model,
                                auto_add_group_model, got_custom_tables,
                                found_user_table, found_group_table) \o out_lines

(***************************************************************************)
(* C15: an unindented line that starts with 'def ', met while a            *)
(* declaration is open, closes the declaration and leaves the scanner      *)
(* idle; an indented def line does not.  While the scanner is idle every   *)
(* line that starts no declaration - a field, a comment, the Meta marker,  *)
(* a table name, another def - leaves the output, the Diagnostics, the     *)
(* table identifiers and the flag of explicit identifiers as they are, and *)
(* the end of the input does not close the declaration a second time.      *)
(***************************************************************************)
C15_DefClosesAndIdleIgnores ==
    [][/\ DefClosesDeclaration
       /\ IndentedDefKeepsOpen
       /\ IdleLineChangesNothing
       /\ ClosedIsNotClosedAgain]_vars

\* a run has completed on a declaration closed by a def and followed by a
\* Meta marker and a table name: one struct, no accessor, no explicit
\* identifier
C15_Witness ==
    /\ pc = "done"
    /\ in_lines = << <<"c","l","a","s","s"," ","A","(","M","o","d","e","l",")",":">>, <<"d","e","f"," ","f","(",")",":">>, <<" ","c","l","a","s","s"," ","M","e","t","a",":">>, <<" "," ","d","b","_","t","a","b","l","e"," ","="," ","'","x","'">> >>
    /\ ScanLines = << <<"t","y","p","e"," ","A"," ","s","t","r","u","c","t"," ","{">>, <<"}">>, <<>> >>
    /\ ~got_custom_tables
    /\ table_name = <<"a","p","p","_","a","s">>

\* an unknown field after the closing def has brought no Diagnostic, and an
\* indented def has closed nothing
C15_IdleFieldNoDiagnostic ==
    /\ pc = "done"
    /\ in_lines = << <<"c","l","a","s","s"," ","A","(","M","o","d","e","l",")",":">>, <<" "," ","d","e","f"," ","g","(","s","e","l","f",")",":">>, <<"d","e","f"," ","f","(",")",":">>, <<" ","u"," ","="," ","m","o","d","e","l","s",".","U","U","I","D","F","i","e","l","d","(",")">> >>
    /\ errors = <<>>
    /\ ScanLines = << <<"t","y","p","e"," ","A"," ","s","t","r","u","c","t"," ","{">>, <<"}">>, <<>> >>

\* the join-table name of a many-to-many line: what stands between
\* 'many2many:' and the ';' after it
JoinTable(ol) ==
    LET after == Drop(ol, Find(ol, <<"m","a","n","y","2","m","a","n","y",":">>) + Len(<<"m","a","n","y","2","m","a","n","y",":">>) - 1)
    IN  Take(after, Find(after, <<";">>) - 1)

\* the many-to-many fields of the input
ManyToManyFields ==
    {FieldName(Strip(in_lines[p])) : p \in {q \in 1..Len(in_lines) :
        /\ Contains(Strip(in_lines[q]), <<"=">>)
        /\ Contains(Strip(in_lines[q]), <<"m","o","d","e","l","s",".","M","a","n","y","T","o","M","a","n","y","F","i","e","l","d","(">>)}}

\* the closed text names the explicit identifier and nothing else: one
\* accessor, which returns it, and every join table made of it and a field
ExplicitIdentifierExact ==
    /\ Cardinality({i \in 1..Len(Emitted) : IsAccessorReturn(Emitted[i])}) = 1
    /\ \A i \in 1..Len(Emitted) :
          IsAccessorReturn(Emitted[i]) => Emitted[i] = <<"\t","r","e","t","u","r","n"," ","\"">> \o table_name \o <<"\"">>
    /\ \A i \in 1..Len(Emitted) :
          IsJoinTableTag(Emitted[i]) =>
              \E f \in ManyToManyFields : JoinTable(Emitted[i]) = table_name \o <<"_">> \o f

(***************************************************************************)
(* C16: a declaration with a recorded explicit identifier E is emitted,    *)
(* wherever its db_table line stands among its fields and whatever E is -  *)
(* an E that contains the default identifier too - with an accessor that   *)
(* returns exactly E and with every join table, rendered before or after   *)
(* the db_table line, exactly E_<field>.                                   *)
(* Refuted by the code: the substitution at close time rewrites the        *)
(* default identifier inside an E that contains it, in the accessor and in *)
(* the join tables rendered after the db_table line.                       *)
(***************************************************************************)
C16_ExplicitIdentifierExactForAnyValue ==
    [][(Closes /\ custom_table_name) => ExplicitIdentifierExact]_vars

\* the claim of C16 does hold of every E that does not contain the default
\* identifier, wherever the db_table line stands
C16_ExactWhenNamesAreApart ==
    [][(Closes /\ custom_table_name /\ ~Contains(table_name, default_table_name)) =>
          ExplicitIdentifierExact]_vars

\* a declaration with E = x has been closed with a join table that was
\* rendered before the db_table line
C16_LateIdentifierReached ==
    /\ pc = "done"
    /\ in_lines = << <<"c","l","a","s","s"," ","A","(","M","o","d","e","l",")",":">>, <<" ","t"," ","="," ","m","o","d","e","l","s",".","M","a","n","y","T","o","M","a","n","y","F","i","e","l","d","(","B",")">>,
                     <<" ","c","l","a","s","s"," ","M","e","t","a",":">>, <<" "," ","d","b","_","t","a","b","l","e"," ","="," ","u","'","x","'">> >>
    /\ \E i \in 1..Len(ScanLines) : JoinTable(ScanLines[i]) = <<"x","_","t">>
    /\ \E i \in 1..Len(ScanLines) : ScanLines[i] = <<"\t","r","e","t","u","r","n"," ","\"","x","\"">>

\* the line q of the input stands in a declaration: a declaration-start line
\* comes before it with no unindented def since, and it is neither itself
InDeclarationAt(q) ==
    /\ ~StartsWith(in_lines[q], <<"d","e","f"," ">>)
    /\ ~IsDeclStart(in_lines[q])
    /\ \E d \in 1..(q - 1) :
          /\ IsDeclStart(in_lines[d])
          /\ \A r \in (d + 1)..(q - 1) : ~StartsWith(in_lines[r], <<"d","e","f"," ">>)

\* the line q of the input is a db_table line that is taken as an explicit
\* identifier: it stands in a declaration, is no comment, and the line before
\* it holds the Meta marker
IsTakenTableName(q) ==
    /\ InDeclarationAt(q)
    /\ IsDbTableAssignment(Strip(in_lines[q]))
    /\ Contains(LineBefore(q), <<"c","l","a","s","s"," ","M","e","t","a",":">>)

\* the position of the declaration-start line of the declaration that is
\* open after p lines
OpenedAt(p) ==
    CHOOSE q \in 1..p :
        IsDeclStart(in_lines[q]) /\ \A r \in (q + 1)..p : ~IsDeclStart(in_lines[r])

\* the declaration that is open has a db_table line of its own that is taken
OwnExplicitIdentifier ==
    \E q \in (OpenedAt(pos) + 1)..pos : IsTakenTableName(q)

\* a declaration-start line sets the table identifiers of the declaration
\* anew, and leaves the flag of explicit identifiers as it is
ResetAtDeclarationStart ==
    (AtLine /\ IsDeclStart(Raw) /\ pc' = "scan") =>
        /\ ~custom_table_name'
        /\ table_name' = <<"a","p","p","_">> \o Lower(DeclaredName(Raw)) \o <<"s">>
        /\ default_table_name' = table_name'
        /\ got_custom_tables' = got_custom_tables

\* the explicit identifier is the open declaration's own, and the flag is
\* up once any declaration had one
OwnIdentifierOnly ==
    (pc = "scan" /\ in_model_def) =>
        /\ custom_table_name <=> OwnExplicitIdentifier
        /\ got_custom_tables <=> \E q \in 1..pos : IsTakenTableName(q)

\* a declaration without an explicit identifier of its own is closed without
\* an accessor and without a substitution
NoAccessorWithoutOwnIdentifier ==
    (Closes /\ ~OwnExplicitIdentifier) =>
        Emitted = current_model \o << <<"}">>, <<>> >>

\* the lines of the output that open the helper interface
TablerLines == {i \in 1..Len(out_lines) : out_lines[i] = <<"t","y","p","e"," ","T","a","b","l","e","r"," ","i","n","t","e","r","f","a","c","e"," ","{">>}

\* the helper-interface block stands in the output, once and after the
\* imports, exactly when a declaration of the input had an explicit
\* identifier
TablerIffExplicitSeen ==
    pc = "done" =>
        LET before == IF include_helpers THEN Len(IMPORTS) ELSE 0
        IN  IF \E q \in 1..Len(in_lines) : IsTakenTableName(q)
            THEN /\ SubSeq(out_lines, before + 1, before + Len(TABLE_HELPER)) = TABLE_HELPER
                 /\ Cardinality(TablerLines) = 1
            ELSE TablerLines = {}

(***************************************************************************)
(* C17: every declaration-start sets the explicit identifier of the        *)
(* declaration anew, and the flag of explicit identifiers stays up for the *)
(* rest of the run: a declaration without a taken db_table line of its own *)
(* gets no accessor and no substitution, also after a declaration that had *)
(* one, and the helper-interface block is put before the output if and     *)
(* only if a declaration of the input had a taken db_table line, whatever  *)
(* the three options are.                                                  *)
(***************************************************************************)
C17_IdentifierPerDeclarationFlagPerRun ==
    /\ []OwnIdentifierOnly
    /\ []TablerIffExplicitSeen
    /\ [][/\ ResetAtDeclarationStart
          /\ NoAccessorWithoutOwnIdentifier
          /\ (got_custom_tables /\ pc = "scan") => got_custom_tables']_vars

\* a run without the helpers has completed on a declaration with an explicit
\* identifier followed by one without: the helper interface, the accessor of
\* the first, no accessor of the second
C17_Witness ==
    /\ pc = "done"
    /\ ~include_helpers /\ ~auto_add_user_model /\ ~auto_add_group_model
    /\ in_lines = << <<"c","l","a","s","s"," ","A","(","M","o","d","e","l",")",":">>, <<" ","c","l","a","s","s"," ","M","e","t","a",":">>, <<" "," ","d","b","_","t","a","b","l","e"," ","="," ","u","'","x","'">>,
                     <<"c","l","a","s","s"," ","B","(","M","o","d","e","l",")",":">> >>
    /\ out_lines = TABLE_HELPER
                   \o << <<"t","y","p","e"," ","A"," ","s","t","r","u","c","t"," ","{">>, <<"}">>, <<>>,
                         <<"f","u","n","c"," ","(","A",")"," ","T","a","b","l","e","N","a","m","e","(",")"," ","s","t","r","i","n","g"," ","{">>, <<"\t","r","e","t","u","r","n"," ","\"","x","\"">>, <<"}">>, <<>>,
                         <<"t","y","p","e"," ","B"," ","s","t","r","u","c","t"," ","{">>, <<"}">>, <<>> >>

====
